---------------------------- MODULE Spec2Model ----------------------------
(***************************************************************************)
(* OSM-Firefighter backend: the CSR graph store (graph.rs), the            *)
(* time-weighted firefighter problem (firefighter/problem.rs) and the      *)
(* legacy one-hop problem (firefighter.rs).                                *)
(*                                                                         *)
(* Vectors keep the source's 0-based indices: a Vec of length k is a       *)
(* function with domain 0..k-1.  A BTreeMap/HashMap is a function whose    *)
(* domain is the key set.                                                  *)
(***************************************************************************)
EXTENDS Integers, Sequences, FiniteSets, Bags, TLC

(***************************************************************************)
(* Bounds of the model.                                                    *)
(***************************************************************************)
MaxNodes == 2   \* generated graphs have 0..MaxNodes nodes
MaxEdges == 1   \* generated graphs have at most MaxEdges edges
MaxDist  == 1   \* generated edge weights are 0..MaxDist
MaxFfs   == 1   \* settings.num_ffs ranges over 0..MaxFfs
MaxEvery == 2   \* settings.strategy_every ranges over 1..MaxEvery
MaxTime  == 6   \* exec_step is taken while global_time < MaxTime
MaxFileNodes == 3   \* files (and the graphs of run_dijkstra) have 0..MaxFileNodes nodes
MaxFileEdges == 2   \* files (and the graphs of run_dijkstra) have 0..MaxFileEdges edges
MaxComments  == 1   \* files start with 0..MaxComments comment lines
MaxSharedTime == 2  \* an instance sharing the graph takes exec_step while its global_time < MaxSharedTime
MaxLegacyTime == 2  \* the legacy exec_step is taken while global_time < MaxLegacyTime
MaxSimulateTime == 8  \* the loop of simulate() takes exec_step while global_time < MaxSimulateTime

\* stands for usize::MAX, the sentinel of run_dijkstra (TLC's integers have 32 bits)
UsizeMax == 2147483647

VARIABLES
    pc,          \* "start" | "ready" | "simulated" | "panicked": position of the caller
    kind,        \* "weighted" (problem.rs) | "legacy" (firefighter.rs)
    graph,       \* the shared Graph: [nodes, num_nodes, num_edges, edges, offsets]
    settings,    \* OSMFSettings: [num_roots, num_ffs, strategy_every]
    node_data,   \* NodeDataStorage: [burning, defended], node id -> time
    global_time, \* OSMFProblem.global_time
    is_active,   \* OSMFProblem.is_active
    legacy,      \* firefighter.rs OSMFProblem: [node_data, global_time, change_tracker, is_active]
    dijkstra,    \* run_dijkstra: [src_id, distances, pq] and the calls made on pq
    input,       \* the graph file read by parse_graph: [readable, lines] and the content it was written from
    parse,       \* locals of parse_graph: [last_src, offset], the lines consumed and the error raised
    instances    \* the OSMFProblem instances that share graph: [pc, node_data, global_time, is_active] each

vars == <<pc, kind, graph, settings, node_data, global_time, is_active, legacy, dijkstra, input, parse, instances>>

\* what a problem instance never touches
others == <<dijkstra, input, parse, instances>>

(***************************************************************************)
(* graph.rs: Edge, Graph.                                                  *)
(***************************************************************************)
Edge(s, t, d) == [src |-> s, tgt |-> t, dist |-> d]

\* strict (src, tgt) order of two edge records: edges grouped by ascending src
EdgeBefore(e, f) == e.src < f.src \/ (e.src = f.src /\ e.tgt < f.tgt)

Len0(vec) == Cardinality(DOMAIN vec)

\* Vec::push
VecPush(vec, x) == [i \in 0..Len0(vec) |-> IF i = Len0(vec) THEN x ELSE vec[i]]

\* the edge vectors of length k over n nodes, grouped by ascending src
RECURSIVE EdgeVecs(_, _)
EdgeVecs(n, k) ==
    IF k = 0 THEN {<<>>}
    ELSE { VecPush(p[1], p[2]) :
             p \in { q \in EdgeVecs(n, k - 1) \X { Edge(s, t, d) : s \in 0..(n - 1), t \in 0..(n - 1), d \in 0..MaxDist } :
                       /\ q[2].src # q[2].tgt
                       /\ k > 1 => EdgeBefore(q[1][k - 2], q[2]) } }

\* Graph invariant of the data model: offsets[v] = number of edges whose src < v
CsrOffsets(n, es) ==
    [v \in 0..n |-> Cardinality({ i \in DOMAIN es : es[i].src < v })]

MkGraph(n, es) ==
    [nodes |-> [i \in 0..(n - 1) |-> [id |-> i, lat |-> [t |-> "float", v |-> 0], lon |-> [t |-> "float", v |-> 0]]],
     num_nodes |-> n, num_edges |-> Len0(es), edges |-> es, offsets |-> CsrOffsets(n, es)]

Vec(seq) == [i \in 0..(Len(seq) - 1) |-> seq[i + 1]]

\* path graph 0 -(2)-> 1 -(3)-> 2 -(1)-> 3
PathGraph == MkGraph(4, Vec(<<Edge(0, 1, 2), Edge(1, 2, 3), Edge(2, 3, 1)>>))

\* two parallel edges into node 1, a self loop and a cycle
MultiGraph == MkGraph(3, Vec(<<Edge(0, 0, 1), Edge(0, 1, 2), Edge(0, 1, 1), Edge(1, 2, 0), Edge(2, 0, 1)>>))

\* a detour 0 -> 1 -> 2 that is shorter than the direct edge 0 -> 2
ForkGraph == MkGraph(3, Vec(<<Edge(0, 1, 1), Edge(0, 2, 3), Edge(1, 2, 1)>>))

\* two sources 0 and 1 of node 2 with different weights, and a way back
JoinGraph == MkGraph(3, Vec(<<Edge(0, 2, 2), Edge(1, 2, 1), Edge(2, 0, 0)>>))

\* a cycle of unit weights through every node
CycleGraph == MkGraph(3, Vec(<<Edge(0, 1, 1), Edge(1, 2, 1), Edge(2, 0, 1)>>))

\* two parallel edges of one weight
TwinGraph == MkGraph(2, Vec(<<Edge(0, 1, 1), Edge(0, 1, 1)>>))

Graphs ==
    { MkGraph(n, es) : <<n, es>> \in UNION { { <<n, es>> : es \in UNION { EdgeVecs(n, k) : k \in 0..MaxEdges } } : n \in 0..MaxNodes } }
        \cup {MultiGraph, ForkGraph, JoinGraph, CycleGraph, TwinGraph}

\* the graphs within the bounds of the files, for run_dijkstra
FileGraphs ==
    { MkGraph(n, es) : <<n, es>> \in UNION { { <<n, es>> : es \in UNION { EdgeVecs(n, k) : k \in 0..MaxFileEdges } } : n \in 0..MaxFileNodes } }
        \cup {PathGraph, MultiGraph, ForkGraph, JoinGraph, CycleGraph}

GraphNodes(g) == 0..(g.num_nodes - 1)

\* the edge indices offsets[node_id]..offsets[node_id + 1] (a Rust range: empty if start >= end)
EdgeRange(g, node_id) == { i \in DOMAIN g.edges : g.offsets[node_id] <= i /\ i < g.offsets[node_id + 1] }


\* get_degree: the outcomes of the usize subtraction offsets[node_id + 1] -
\* offsets[node_id]; when it underflows, a build with overflow checks panics
\* and a build without them wraps around
get_degree(g, node_id) ==
    LET hi == g.offsets[node_id + 1]
        lo == g.offsets[node_id]
    IN  IF hi >= lo THEN {hi - lo} ELSE {"panic", UsizeMax - (lo - hi - 1)}

(***************************************************************************)
(* Local Vec values (roots, to_burn) are sequences.                        *)
(***************************************************************************)
RECURSIVE SortedSeq(_)
SortedSeq(S) ==
    IF S = {} THEN <<>>
    ELSE LET m == CHOOSE x \in S : \A y \in S : x <= y
         IN  <<m>> \o SortedSeq(S \ {m})

Range(seq) == { seq[i] : i \in 1..Len(seq) }

(***************************************************************************)
(* problem.rs: NodeData, NodeDataStorage.                                  *)
(***************************************************************************)
NodeData(id, t) == [node_id |-> id, time |-> t]

\* BTreeMap::insert: the value of an existing key is replaced
MapInsert(map, k, v) == [x \in (DOMAIN map) \cup {k} |-> IF x = k THEN v ELSE map[x]]

EmptyMap == [x \in {} |-> NodeData(0, 0)]

NodeDataStorageNew == [burning |-> EmptyMap, defended |-> EmptyMap]

is_burning(nd, node_id) == node_id \in DOMAIN nd.burning

is_defended(nd, node_id) == node_id \in DOMAIN nd.defended

is_root(nd, node_id) ==
    IF node_id \in DOMAIN nd.burning THEN nd.burning[node_id].time = 0 ELSE FALSE

\* is_burning_by with a strict comparison of the times
is_burning_by_Strict(nd, node_id, time) ==
    IF node_id \in DOMAIN nd.burning THEN nd.burning[node_id].time < time ELSE FALSE

is_burning_by(nd, node_id, time) ==
    IF node_id \in DOMAIN nd.burning THEN nd.burning[node_id].time <= time ELSE FALSE

is_defended_by(nd, node_id, time) ==
    IF node_id \in DOMAIN nd.defended THEN nd.defended[node_id].time <= time ELSE FALSE

\* is_undefended without the defended map
is_undefended_NotBurning(nd, node_id) == ~is_burning(nd, node_id)

is_undefended(nd, node_id) == ~(is_burning(nd, node_id) \/ is_defended(nd, node_id))

RECURSIVE InsertAll(_, _, _)
InsertAll(map, nodes, time) ==
    IF nodes = <<>> THEN map
    ELSE InsertAll(MapInsert(map, Head(nodes), NodeData(Head(nodes), time)), Tail(nodes), time)

mark_burning(nd, nodes, time) == [nd EXCEPT !.burning = InsertAll(nd.burning, nodes, time)]

mark_defended(nd, nodes, time) == [nd EXCEPT !.defended = InsertAll(nd.defended, nodes, time)]

\* count_burning_by with a strict comparison of the times
count_burning_by_Strict(nd, time) ==
    Cardinality({ k \in DOMAIN nd.burning : nd.burning[k].time < time })

count_burning_by(nd, time) ==
    Cardinality({ k \in DOMAIN nd.burning : nd.burning[k].time <= time })

count_defended_by(nd, time) ==
    Cardinality({ k \in DOMAIN nd.defended : nd.defended[k].time <= time })

\* the node_id fields of the records of a map with the given time, in
\* ascending key order
IdsAt(map, time) ==
    LET keys == SortedSeq({ k \in DOMAIN map : map[k].time = time })
    IN  [j \in 1..Len(keys) |-> map[keys[j]].node_id]

get_burning_at(nd, time) == IdsAt(nd.burning, time)

get_defended_at(nd, time) == IdsAt(nd.defended, time)

\* get_burning that returns the records of the roots only
get_burning_Roots(nd) ==
    SelectSeq([j \in 1..Cardinality(DOMAIN nd.burning) |-> nd.burning[SortedSeq(DOMAIN nd.burning)[j]]],
              LAMBDA rec : rec.time = 0)

\* BTreeMap::values(): the records in ascending key order
get_burning(nd) == [j \in 1..Cardinality(DOMAIN nd.burning) |-> nd.burning[SortedSeq(DOMAIN nd.burning)[j]]]

(***************************************************************************)
(* strategy.rs is not part of the sources: Strategy::execute is modelled   *)
(* from its contract.  It selects at most num_ffs currently undefended     *)
(* nodes and marks them defended at the current tick.                      *)
(***************************************************************************)
StrategyChoices(g, s, nd) ==
    { D \in SUBSET { v \in GraphNodes(g) : is_undefended(nd, v) } : Cardinality(D) <= s.num_ffs }

execute(s, nd, time, D) == mark_defended(nd, SortedSeq(D), time)

(***************************************************************************)
(* problem.rs: OSMFProblem.                                                *)
(***************************************************************************)
\* the draws of gen_fire_roots that pass the is_undefended test; the storage is
\* only written after the loop, so every draw passes
RootDraws(g, s, nd) ==
    { roots \in [1..s.num_roots -> GraphNodes(g)] :
        \A i \in 1..s.num_roots : is_undefended(nd, roots[i]) }

gen_fire_roots(nd, roots, time) == mark_burning(nd, roots, time)

\* ScanEdges with a strict comparison of the arrival time
ScanEdges_Strict(g, nd, time, rec) ==
    LET idx  == SortedSeq(EdgeRange(g, rec.node_id))
        und  == SelectSeq(idx, LAMBDA i : is_undefended(nd, g.edges[i].tgt))
        fire == SelectSeq(und, LAMBDA i : time > rec.time + g.edges[i].dist)
    IN  [active |-> und # <<>>, to_burn |-> [j \in 1..Len(fire) |-> g.edges[fire[j]].tgt]]

\* ScanEdges that raises is_active only when an edge fires (the legacy rule)
ScanEdges_ActiveOnFire(g, nd, time, rec) ==
    LET idx  == SortedSeq(EdgeRange(g, rec.node_id))
        und  == SelectSeq(idx, LAMBDA i : is_undefended(nd, g.edges[i].tgt))
        fire == SelectSeq(und, LAMBDA i : time >= rec.time + g.edges[i].dist)
    IN  [active |-> fire # <<>>, to_burn |-> [j \in 1..Len(fire) |-> g.edges[fire[j]].tgt]]

\* ScanEdges that takes every edge for one tick long (the legacy one-hop rule)
ScanEdges_Unweighted(g, nd, time, rec) ==
    LET idx  == SortedSeq(EdgeRange(g, rec.node_id))
        und  == SelectSeq(idx, LAMBDA i : is_undefended(nd, g.edges[i].tgt))
        fire == SelectSeq(und, LAMBDA i : time >= rec.time + 1)
    IN  [active |-> und # <<>>, to_burn |-> [j \in 1..Len(fire) |-> g.edges[fire[j]].tgt]]

\* ScanEdges that raises is_active for any out-edge
ScanEdges_ActiveOnEdge(g, nd, time, rec) ==
    LET idx  == SortedSeq(EdgeRange(g, rec.node_id))
        und  == SelectSeq(idx, LAMBDA i : is_undefended(nd, g.edges[i].tgt))
        fire == SelectSeq(und, LAMBDA i : time >= rec.time + g.edges[i].dist)
    IN  [active |-> idx # <<>>, to_burn |-> [j \in 1..Len(fire) |-> g.edges[fire[j]].tgt]]

\* ScanEdges that only leaves out the defended targets
ScanEdges_Reignite(g, nd, time, rec) ==
    LET idx  == SortedSeq(EdgeRange(g, rec.node_id))
        und  == SelectSeq(idx, LAMBDA i : ~is_defended(nd, g.edges[i].tgt))
        fire == SelectSeq(und, LAMBDA i : time >= rec.time + g.edges[i].dist)
    IN  [active |-> und # <<>>, to_burn |-> [j \in 1..Len(fire) |-> g.edges[fire[j]].tgt]]

\* the inner loop of spread_fire for one burning record
ScanEdges(g, nd, time, rec) ==
    LET idx  == SortedSeq(EdgeRange(g, rec.node_id))
        und  == SelectSeq(idx, LAMBDA i : is_undefended(nd, g.edges[i].tgt))
        fire == SelectSeq(und, LAMBDA i : time >= rec.time + g.edges[i].dist)
    IN  [active |-> und # <<>>, to_burn |-> [j \in 1..Len(fire) |-> g.edges[fire[j]].tgt]]

RECURSIVE ScanBurning(_, _, _, _)
ScanBurning(g, nd, time, burning) ==
    IF burning = <<>> THEN [active |-> FALSE, to_burn |-> <<>>]
    ELSE LET h == ScanEdges(g, nd, time, Head(burning))
             r == ScanBurning(g, nd, time, Tail(burning))
         IN  [active |-> h.active \/ r.active, to_burn |-> h.to_burn \o r.to_burn]

\* spread_fire that computes is_active once more after the nodes are marked
spread_fire_Recompute(g, nd, time) ==
    LET scan == ScanBurning(g, nd, time, get_burning(nd))
        marked == mark_burning(nd, scan.to_burn, time)
    IN  [node_data |-> marked, is_active |-> ScanBurning(g, marked, time, get_burning(marked)).active]

spread_fire(g, nd, time) ==
    LET scan == ScanBurning(g, nd, time, get_burning(nd))
    IN  [node_data |-> mark_burning(nd, scan.to_burn, time), is_active |-> scan.active]

\* contain_fire without the test of the cadence
contain_fire_EveryTick(s, nd, time, D) == execute(s, nd, time, D)

contain_fire(s, nd, time, D) ==
    IF time % s.strategy_every = 0 THEN execute(s, nd, time, D) ELSE nd

\* exec_step that runs the containment before the time is incremented
exec_step_ContainFirst(g, s, nd, time, D) ==
    LET t1 == time + 1
        r  == spread_fire(g, contain_fire(s, nd, time, D), t1)
    IN  [node_data |-> r.node_data, global_time |-> t1, is_active |-> r.is_active]

exec_step(g, s, nd, time, D) ==
    LET t1 == time + 1
        r  == spread_fire(g, contain_fire(s, nd, t1, D), t1)
    IN  [node_data |-> r.node_data, global_time |-> t1, is_active |-> r.is_active]

\* the fields of OSMFSimulationResponse that the simulation sets
simulation_response(g, nd, time) ==
    [nodes_burned |-> Cardinality(DOMAIN nd.burning),
     nodes_defended |-> Cardinality(DOMAIN nd.defended),
     nodes_total |-> g.num_nodes,
     end_time |-> time]

sim_step_metadata_response(nd, time) ==
    [nodes_burned_by |-> count_burning_by(nd, time),
     nodes_defended_by |-> count_defended_by(nd, time),
     nodes_burned_at |-> get_burning_at(nd, time),
     nodes_defended_at |-> get_defended_at(nd, time)]

\* the guard of OSMFProblem::new with >= for >
TooManyRoots_Ge(num_roots, num_nodes) == num_roots >= num_nodes

\* OSMFProblem::new: the guard of the panic
TooManyRoots(num_roots, num_nodes) == num_roots > num_nodes

Settings == [num_roots : 0..(MaxNodes + 1), num_ffs : 0..MaxFfs, strategy_every : 1..MaxEvery]

(***************************************************************************)
(* firefighter.rs: the legacy OSMFProblem.                                 *)
(***************************************************************************)
LegacyNodeData(id, st, t) == [node_id |-> id, state |-> st, time |-> t]

LegacyEmptyMap == [x \in {} |-> LegacyNodeData(0, "Burning", 0)]

LegacyProblem == [node_data |-> LegacyEmptyMap, global_time |-> 0,
                  change_tracker |-> [t \in {} |-> <<>>], is_active |-> TRUE]

is_node_data_attached(p, node_id) == node_id \in DOMAIN p.node_data

attach_node_data(p, node_id, st) ==
    [p EXCEPT !.node_data = MapInsert(p.node_data, node_id, LegacyNodeData(node_id, st, p.global_time))]

track_changes(p, changed) ==
    [p EXCEPT !.change_tracker =
        IF p.global_time \in DOMAIN p.change_tracker
        THEN MapInsert(p.change_tracker, p.global_time, p.change_tracker[p.global_time] \o changed)
        ELSE MapInsert(p.change_tracker, p.global_time, changed)]

\* the draws of the legacy gen_fire_roots that are accepted: a draw of a node
\* that already has data attached is rejected and drawn again
LegacyRootDraws(g, num_roots) ==
    { roots \in [1..num_roots -> GraphNodes(g)] :
        \A i, j \in 1..num_roots : i # j => roots[i] # roots[j] }

RECURSIVE AttachAll(_, _, _)
AttachAll(p, nodes, st) ==
    IF nodes = <<>> THEN p
    ELSE AttachAll(attach_node_data(p, Head(nodes), st), Tail(nodes), st)

legacy_gen_fire_roots(p, roots) == track_changes(AttachAll(p, roots, "Burning"), roots)

\* try_attach_node_data without the test: the record of the node is replaced
try_attach_node_data_Overwrite(p, node_id, st) ==
    [problem |-> attach_node_data(p, node_id, st), result |-> "Ok"]

\* try_attach_node_data: the problem after the call and the value returned
try_attach_node_data(p, node_id, st) ==
    IF ~is_node_data_attached(p, node_id)
    THEN [problem |-> attach_node_data(p, node_id, st), result |-> "Ok"]
    ELSE [problem |-> p, result |-> "NodeDataAlreadyAttached"]

\* the ids of the records with state Burning
LegacyBurning(p) == { k \in DOMAIN p.node_data : p.node_data[k].state = "Burning" }

\* node_data.values(): a HashMap yields its records in an arbitrary order;
\* the orders in which the burning records may come
RECURSIVE Orders(_)
Orders(S) ==
    IF S = {} THEN {<<>>}
    ELSE UNION { { <<x>> \o o : o \in Orders(S \ {x}) } : x \in S }

\* offsets[node_id + 1] of a node id >= num_nodes is out of bounds
LegacyIndexPanic(g, p) == \E k \in LegacyBurning(p) : p.node_data[k].node_id >= g.num_nodes

\* the inner loop of the legacy spread_fire for one burning node
LegacyScanEdges(g, p, node_id) ==
    LET idx == SortedSeq(EdgeRange(g, node_id))
        new == SelectSeq(idx, LAMBDA i : ~is_node_data_attached(p, g.edges[i].tgt))
    IN  [j \in 1..Len(new) |-> g.edges[new[j]].tgt]

RECURSIVE LegacyScanBurning(_, _, _)
LegacyScanBurning(g, p, burning) ==
    IF burning = <<>> THEN <<>>
    ELSE LegacyScanEdges(g, p, p.node_data[Head(burning)].node_id) \o LegacyScanBurning(g, p, Tail(burning))

\* the legacy spread_fire, the burning records coming in the order burning
legacy_spread_fire(g, p, burning) ==
    LET to_burn == LegacyScanBurning(g, p, burning)
    IN  track_changes(IF to_burn # <<>> THEN AttachAll(p, to_burn, "Burning")
                      ELSE [p EXCEPT !.is_active = FALSE],
                      to_burn)

\* the legacy exec_step that does not advance the time
legacy_exec_step_NoTime(g, p, burning) == legacy_spread_fire(g, p, burning)

\* the legacy exec_step
legacy_exec_step(g, p, burning) ==
    legacy_spread_fire(g, [p EXCEPT !.global_time = p.global_time + 1], burning)

\* the guard of the legacy OSMFProblem::new with >= for >
LegacyTooManyRoots_Ge(num_roots, num_nodes) == num_roots >= num_nodes

\* legacy OSMFProblem::new: the guard of the panic
LegacyTooManyRoots(num_roots, num_nodes) == num_roots > num_nodes

(***************************************************************************)
(* graph.rs: run_dijkstra.  binary_minheap.rs is not part of the sources:  *)
(* the heap is modelled from its contract as the bag of queued node ids    *)
(* (push inserts an entry whether or not the node is queued), pop removing *)
(* an entry of a node of minimal current distance.  popped and decreased   *)
(* record the nodes pop has returned and decrease_key was called for.      *)
(***************************************************************************)
HeapNew == EmptyBag

HeapIsEmpty(pq) == pq = EmptyBag

HeapPush(pq, node) == pq (+) SetToBag({node})

HeapContains(pq, node) == BagIn(node, pq)

HeapDecreaseKey(pq, node) == pq

\* the nodes pop may return
HeapMin(pq, distances) ==
    { n \in BagToSet(pq) : \A m \in BagToSet(pq) : distances[n] <= distances[m] }

\* the heap after pop has returned node
HeapPop(pq, node) == pq (-) SetToBag({node})

DijkstraIdle == [src_id |-> 0, distances |-> <<>>, pq |-> HeapNew, popped |-> <<>>, decreased |-> {}]

DijkstraBegin(g, src_id) ==
    [src_id |-> src_id,
     distances |-> [v \in GraphNodes(g) |-> IF v = src_id THEN 0 ELSE UsizeMax],
     pq |-> HeapPush(HeapNew, src_id),
     popped |-> <<>>,
     decreased |-> {}]

\* the relaxation that compares the edge weight alone with the target's distance
Relax_EdgeOnly(g, st, node, i) ==
    LET edge == g.edges[i]
        dist == edge.dist
    IN  IF dist < st.distances[edge.tgt]
        THEN [st EXCEPT !.distances[edge.tgt] = dist,
                        !.pq = IF HeapContains(st.pq, edge.tgt)
                               THEN HeapDecreaseKey(st.pq, edge.tgt)
                               ELSE HeapPush(st.pq, edge.tgt),
                        !.decreased = IF HeapContains(st.pq, edge.tgt) THEN @ \cup {edge.tgt} ELSE @]
        ELSE st

\* the relaxation that pushes the target whether or not it is queued
Relax_AlwaysPush(g, st, node, i) ==
    LET edge == g.edges[i]
        dist == st.distances[node] + edge.dist
    IN  IF dist < st.distances[edge.tgt]
        THEN [st EXCEPT !.distances[edge.tgt] = dist,
                        !.pq = HeapPush(st.pq, edge.tgt)]
        ELSE st

\* the body of the edge loop of run_dijkstra
Relax(g, st, node, i) ==
    LET edge == g.edges[i]
        dist == st.distances[node] + edge.dist
    IN  IF dist < st.distances[edge.tgt]
        THEN [st EXCEPT !.distances[edge.tgt] = dist,
                        !.pq = IF HeapContains(st.pq, edge.tgt)
                               THEN HeapDecreaseKey(st.pq, edge.tgt)
                               ELSE HeapPush(st.pq, edge.tgt),
                        !.decreased = IF HeapContains(st.pq, edge.tgt) THEN @ \cup {edge.tgt} ELSE @]
        ELSE st

RECURSIVE RelaxAll(_, _, _, _)
RelaxAll(g, st, node, idx) ==
    IF idx = <<>> THEN st
    ELSE RelaxAll(g, Relax(g, st, node, Head(idx)), node, Tail(idx))

\* one iteration of the while loop, pop returning node
DijkstraIteration(g, st, node) ==
    RelaxAll(g, [st EXCEPT !.pq = HeapPop(st.pq, node), !.popped = Append(@, node)],
             node, SortedSeq(EdgeRange(g, node)))

\* the while loop of run_dijkstra, pop returning one of the minimal nodes
RECURSIVE DijkstraWhile(_, _)
DijkstraWhile(g, st) ==
    IF HeapIsEmpty(st.pq) THEN st
    ELSE DijkstraWhile(g, DijkstraIteration(g, st, CHOOSE n \in HeapMin(st.pq, st.distances) : TRUE))

\* a whole run of run_dijkstra
run_dijkstra(g, src_id) == DijkstraWhile(g, DijkstraBegin(g, src_id))

(***************************************************************************)
(* graph.rs: parse_graph.  A file is a sequence of lines, a line the       *)
(* sequence of its space-separated fields, and a field a token: the text   *)
(* of a non-negative integer ("int", with its value), of a number with a   *)
(* fraction ("float"), a text starting with '#' ("hash"), or any other     *)
(* text, the empty one included ("bad").                                   *)
(***************************************************************************)
Tok(t, v) == [t |-> t, v |-> v]

IntTok(n) == Tok("int", n)

FloatTok == Tok("float", 0)

BadTok == Tok("bad", 0)

HashTok == Tok("hash", 0)

CommentLine == <<HashTok>>

\* "".split(" ") yields one empty field
EmptyLine == <<BadTok>>

Ok(v) == [ok |-> TRUE, v |-> v, error |-> "none"]

Err(e) == [ok |-> FALSE, v |-> 0, error |-> e]

\* str::parse::<usize> that reads any text that is not a number as 0
parse_usize_Lenient(tok) == IF tok.t = "int" THEN Ok(tok.v) ELSE Ok(0)

\* str::parse::<usize> of one field
parse_usize(tok) == IF tok.t = "int" THEN Ok(tok.v) ELSE Err("ParseInt")

\* str::parse::<f64> of one field: the text of an integer is a float as well
parse_f64(tok) == IF tok.t \in {"int", "float"} THEN Ok(tok) ELSE Err("ParseFloat")

\* str::parse::<usize> of a whole line: a line of several fields holds a space
parse_line(line) == IF Len(line) = 1 THEN parse_usize(line[1]) ELSE Err("ParseInt")

\* line.starts_with("#")
starts_with_hash(line) == line[1].t = "hash"

Node(id, lat, lon) == [id |-> id, lat |-> lat, lon |-> lon]

GraphNew == [nodes |-> <<>>, num_nodes |-> 0, num_edges |-> 0, edges |-> <<>>, offsets |-> <<>>]

NoInput == [readable |-> TRUE, lines |-> <<>>, num_nodes |-> 0, num_edges |-> 0, edge_lines |-> <<>>]

ParseIdle == [last_src |-> -1, offset |-> 0, pos |-> 0, error |-> "none"]

\* the header loop that stops in front of the first line without '#'
RECURSIVE HeaderLoop_NoDiscard(_, _)
HeaderLoop_NoDiscard(lines, pos) ==
    IF pos >= Len(lines) THEN [pos |-> pos, error |-> "EOF"]
    ELSE IF ~starts_with_hash(lines[pos + 1]) THEN [pos |-> pos, error |-> "none"]
    ELSE HeaderLoop_NoDiscard(lines, pos + 1)

\* the header loop: lines are consumed up to and including the first line
\* that does not start with '#'; pos is the number of lines consumed
RECURSIVE HeaderLoop(_, _)
HeaderLoop(lines, pos) ==
    IF pos >= Len(lines) THEN [pos |-> pos, error |-> "EOF"]
    ELSE IF ~starts_with_hash(lines[pos + 1]) THEN [pos |-> pos + 1, error |-> "none"]
    ELSE HeaderLoop(lines, pos + 1)

\* lines.next().expect(..)?.parse()? for one of the two counts
parse_count(lines, pos) ==
    IF pos >= Len(lines) THEN Err("EOF") ELSE parse_line(lines[pos + 1])

\* parse_graph from File::open to the edge count
parse_counts(g, file) ==
    IF ~file.readable THEN [graph |-> g, pos |-> 0, error |-> "IO"]
    ELSE LET h == HeaderLoop(file.lines, 0)
             n == parse_count(file.lines, h.pos)
             k == parse_count(file.lines, h.pos + 1)
         IN  IF h.error # "none" THEN [graph |-> g, pos |-> h.pos, error |-> h.error]
             ELSE IF ~n.ok THEN [graph |-> g, pos |-> h.pos, error |-> n.error]
             ELSE IF ~k.ok THEN [graph |-> [g EXCEPT !.num_nodes = n.v], pos |-> h.pos + 1, error |-> k.error]
             ELSE [graph |-> [g EXCEPT !.num_nodes = n.v, !.num_edges = k.v], pos |-> h.pos + 2, error |-> "none"]

\* the body of the node loop up to the push: the two ids are skipped, the
\* latitude and the longitude are parsed
parse_node(lines, pos, i) ==
    IF pos >= Len(lines) THEN Err("EOF")
    ELSE LET line == lines[pos + 1]
         IN  IF Len(line) < 3 THEN Err("EOL")
             ELSE IF ~parse_f64(line[3]).ok THEN parse_f64(line[3])
             ELSE IF Len(line) < 4 THEN Err("EOL")
             ELSE IF ~parse_f64(line[4]).ok THEN parse_f64(line[4])
             ELSE Ok(Node(i, parse_f64(line[3]).v, parse_f64(line[4]).v))

\* the body of the edge loop up to the Edge value
parse_edge(lines, pos) ==
    IF pos >= Len(lines) THEN Err("EOF")
    ELSE LET line == lines[pos + 1]
         IN  IF ~parse_usize(line[1]).ok THEN parse_usize(line[1])
             ELSE IF Len(line) < 2 THEN Err("EOL")
             ELSE IF ~parse_usize(line[2]).ok THEN parse_usize(line[2])
             ELSE IF Len(line) < 3 THEN Err("EOL")
             ELSE IF ~parse_usize(line[3]).ok THEN parse_usize(line[3])
             ELSE Ok(Edge(parse_usize(line[1]).v, parse_usize(line[2]).v, parse_usize(line[3]).v))

\* self.offsets[j] = offset for j in (last_src + 1)..=edge.src
FillOffsets(offsets, last_src, src, offset) ==
    [j \in DOMAIN offsets |-> IF last_src + 1 <= j /\ j <= src THEN offset ELSE offsets[j]]

\* the edge loop of parse_graph from line i of the edge lines es on; offset
\* counts the edges read, so it is i
RECURSIVE ParseOffsets(_, _, _, _)
ParseOffsets(offsets, es, i, last_src) ==
    IF i >= Len0(es) THEN offsets
    ELSE IF es[i].src > last_src
         THEN ParseOffsets(FillOffsets(offsets, last_src, es[i].src, i), es, i + 1, es[i].src)
         ELSE ParseOffsets(offsets, es, i + 1, last_src)

\* the graph from_file returns for a well-formed file of n nodes with the
\* edge lines es, all of them with src < n
from_file(n, es) ==
    [MkGraph(n, es) EXCEPT
        !.offsets = [ParseOffsets([j \in 0..n |-> 0], es, 0, -1) EXCEPT ![n] = Len0(es)]]

(***************************************************************************)
(* The files that are parsed.                                              *)
(***************************************************************************)
\* the vectors of k edge lines over n nodes, in any order; the weight of a line
\* is a function of its end points
RECURSIVE LineVecs(_, _)
LineVecs(n, k) ==
    IF k = 0 THEN {<<>>}
    ELSE { VecPush(p[1], p[2]) :
             p \in LineVecs(n, k - 1) \X { Edge(s, t, (s + t) % (MaxDist + 1)) : s \in 0..(n - 1), t \in 0..(n - 1) } }

\* a node line: id, second id, latitude, longitude, elevation
NodeLine(i) == <<IntTok(i), IntTok(i), FloatTok, IntTok(i), IntTok(0)>>

EdgeLine(e) == <<IntTok(e.src), IntTok(e.tgt), IntTok(e.dist)>>

\* the text of a file: c comment lines, the empty line that ends the header
\* (if sep), the two counts, the node lines, the edge lines
FileLines(c, sep, n, k, es) ==
    [i \in 1..c |-> CommentLine]
        \o (IF sep THEN <<EmptyLine>> ELSE <<>>)
        \o <<<<IntTok(n)>>, <<IntTok(k)>>>>
        \o [i \in 1..n |-> NodeLine(i - 1)]
        \o [i \in 1..k |-> EdgeLine(es[i - 1])]

\* a file with the content it was written from
File(c, sep, n, k, es) ==
    [readable |-> TRUE, lines |-> FileLines(c, sep, n, k, es),
     num_nodes |-> n, num_edges |-> k, edge_lines |-> es]

Contents ==
    UNION { { <<n, k, es>> : es \in LineVecs(n, k) } :
            <<n, k>> \in (0..MaxFileNodes) \X (0..MaxFileEdges) }

\* one file per pair of counts, to be damaged
DamageBases ==
    { File(1, TRUE, n, k, [i \in 0..(k - 1) |-> Edge(i % n, (i + 1) % n, i % (MaxDist + 1))]) :
        <<n, k>> \in (1..MaxFileNodes) \X (0..MaxFileEdges) }
        \cup {File(1, TRUE, 0, 0, <<>>)}

\* the file ends after j lines
Truncations(f) == { [f EXCEPT !.lines = SubSeq(f.lines, 1, j)] : j \in 0..(Len(f.lines) - 1) }

\* a line ends after m fields
Cuts(f) ==
    UNION { { [f EXCEPT !.lines[i] = SubSeq(f.lines[i], 1, m)] : m \in 1..(Len(f.lines[i]) - 1) } :
            i \in 1..Len(f.lines) }

\* a field holds another text
Garbles(f) ==
    UNION { { [f EXCEPT !.lines[i][j] = tok] :
                <<j, tok>> \in (1..Len(f.lines[i])) \X {BadTok, FloatTok, IntTok(f.num_nodes + 1)} } :
            i \in 1..Len(f.lines) }

Damaged ==
    UNION { Truncations(f) \cup Cuts(f) \cup Garbles(f) \cup {[f EXCEPT !.readable = FALSE]} : f \in DamageBases }

\* the files: every content with its header closed by an empty line and
\* without one, and the damaged files
Inputs ==
    { File(c, sep, x[1], x[2], x[3]) : <<c, sep, x>> \in (0..MaxComments) \X BOOLEAN \X Contents }
        \cup Damaged

NoInstances == <<>>

OthersIdle ==
    /\ dijkstra = DijkstraIdle
    /\ input = NoInput
    /\ parse = ParseIdle
    /\ instances = NoInstances

(***************************************************************************)
(* The time-weighted problem: construction and ticks.                      *)
(***************************************************************************)
\* the scenario on the path graph: one root, no containment
PathSettings == [num_roots |-> 1, num_ffs |-> 0, strategy_every |-> 1]

InitWeighted ==
    /\ pc = "start"
    /\ kind = "weighted"
    /\ \/ graph \in Graphs /\ settings \in Settings
       \/ graph = PathGraph /\ settings = PathSettings
    /\ node_data = NodeDataStorageNew
    /\ global_time = 0
    /\ is_active = TRUE
    /\ legacy = LegacyProblem
    /\ OthersIdle

\* OSMFProblem::new, num_roots > num_nodes
NewPanic ==
    /\ pc = "start"
    /\ kind = "weighted"
    /\ TooManyRoots(settings.num_roots, graph.num_nodes)
    /\ pc' = "panicked"
    /\ UNCHANGED <<kind, graph, settings, node_data, global_time, is_active, legacy, others>>

\* OSMFProblem::new
New ==
    /\ pc = "start"
    /\ kind = "weighted"
    /\ ~TooManyRoots(settings.num_roots, graph.num_nodes)
    /\ \E roots \in RootDraws(graph, settings, NodeDataStorageNew) :
          node_data' = gen_fire_roots(NodeDataStorageNew, roots, 0)
    /\ global_time' = 0
    /\ is_active' = TRUE
    /\ pc' = "ready"
    /\ UNCHANGED <<kind, graph, settings, legacy, others>>

\* OSMFProblem::exec_step
ExecStep ==
    /\ pc = "ready"
    /\ kind = "weighted"
    /\ global_time < MaxTime
    /\ \E D \in StrategyChoices(graph, settings, node_data) :
          LET r == exec_step(graph, settings, node_data, global_time, D)
          IN  /\ node_data' = r.node_data
              /\ global_time' = r.global_time
              /\ is_active' = r.is_active
    /\ UNCHANGED <<pc, kind, graph, settings, legacy, others>>

Init == InitWeighted

Next == NewPanic \/ New \/ ExecStep

Spec == Init /\ [][Next]_vars

(***************************************************************************)
(* The time-weighted problem on the hand-written graphs.                   *)
(***************************************************************************)
ScenarioGraphs == {MultiGraph, ForkGraph, JoinGraph, CycleGraph, TwinGraph}

InitScenario ==
    /\ pc = "start"
    /\ kind = "weighted"
    /\ \/ graph \in ScenarioGraphs /\ settings \in Settings
       \/ graph = PathGraph /\ settings = PathSettings
    /\ node_data = NodeDataStorageNew
    /\ global_time = 0
    /\ is_active = TRUE
    /\ legacy = LegacyProblem
    /\ OthersIdle

SpecScenario == InitScenario /\ [][Next]_vars

(***************************************************************************)
(* simulate() on the hand-written graphs: the loop takes exec_step while   *)
(* is_active holds and returns when it does not.  The program is           *)
(* sequential and never waits, so a step that can be taken is taken.       *)
(***************************************************************************)
\* one iteration of while self.is_active
SimulateStep ==
    /\ pc = "ready"
    /\ kind = "weighted"
    /\ is_active
    /\ global_time < MaxSimulateTime
    /\ \E r \in { exec_step(graph, settings, node_data, global_time, D) :
                    D \in StrategyChoices(graph, settings, node_data) } :
          /\ node_data' = r.node_data
          /\ global_time' = r.global_time
          /\ is_active' = r.is_active
    /\ UNCHANGED <<pc, kind, graph, settings, legacy, others>>

\* the loop ends: simulate() returns
SimulateReturn ==
    /\ pc = "ready"
    /\ kind = "weighted"
    /\ ~is_active
    /\ pc' = "simulated"
    /\ UNCHANGED <<kind, graph, settings, node_data, global_time, is_active, legacy, others>>

NextSimulate == NewPanic \/ New \/ SimulateStep \/ SimulateReturn

\* the loop condition: an iteration can be taken (the strategy may select no
\* node, so exec_step has an outcome)
SimulatePending ==
    pc = "ready" /\ kind = "weighted" /\ is_active /\ global_time < MaxSimulateTime

\* weak fairness of SimulateStep, its enabling condition written as the
\* state predicate SimulatePending: exec_step is a call that returns, so a
\* pending iteration of the loop is taken
SimulateFair == []<>(~SimulatePending) \/ []<><<SimulateStep>>_vars

SpecSimulate ==
    InitScenario /\ [][NextSimulate]_vars /\ SimulateFair /\ WF_vars(SimulateReturn)

(***************************************************************************)
(* Construction of either problem.                                         *)
(***************************************************************************)
InitLegacy ==
    /\ pc = "start"
    /\ kind = "legacy"
    /\ \/ graph \in Graphs /\ settings \in { s \in Settings : s.num_ffs = 0 /\ s.strategy_every = 1 }
       \/ graph = PathGraph /\ settings = PathSettings
    /\ node_data = NodeDataStorageNew
    /\ global_time = 0
    /\ is_active = TRUE
    /\ legacy = LegacyProblem
    /\ OthersIdle

\* legacy OSMFProblem::new, num_roots > num_nodes
LegacyNewPanic ==
    /\ pc = "start"
    /\ kind = "legacy"
    /\ LegacyTooManyRoots(settings.num_roots, graph.num_nodes)
    /\ pc' = "panicked"
    /\ UNCHANGED <<kind, graph, settings, node_data, global_time, is_active, legacy, others>>

\* legacy OSMFProblem::new
LegacyNew ==
    /\ pc = "start"
    /\ kind = "legacy"
    /\ ~LegacyTooManyRoots(settings.num_roots, graph.num_nodes)
    /\ \E roots \in LegacyRootDraws(graph, settings.num_roots) :
          legacy' = legacy_gen_fire_roots(LegacyProblem, roots)
    /\ pc' = "ready"
    /\ UNCHANGED <<kind, graph, settings, node_data, global_time, is_active, others>>

InitNew == InitWeighted \/ InitLegacy

NextNew == NewPanic \/ New \/ LegacyNewPanic \/ LegacyNew

SpecNew == InitNew /\ [][NextNew]_vars

(***************************************************************************)
(* The legacy problem on graphs read by from_file: construction, ticks and *)
(* try_attach_node_data calls of the owner of the problem in any order.    *)
(***************************************************************************)
\* the graphs of the legacy problem: the file that holds every node with its
\* out-edges has them grouped by ascending src
LegacyGraphs ==
    { from_file(g.num_nodes, g.edges) : g \in {PathGraph, MultiGraph, ForkGraph, JoinGraph, CycleGraph, TwinGraph} }
        \cup { from_file(n, Vec(<<>>)) : n \in 0..1 }

InitLegacySim ==
    /\ pc = "start"
    /\ kind = "legacy"
    /\ graph \in LegacyGraphs
    /\ settings \in { s \in Settings : s.num_ffs = 0 /\ s.strategy_every = 1 }
    /\ node_data = NodeDataStorageNew
    /\ global_time = 0
    /\ is_active = TRUE
    /\ legacy = LegacyProblem
    /\ OthersIdle

\* legacy exec_step
LegacyExecStep ==
    /\ pc = "ready"
    /\ kind = "legacy"
    /\ legacy.global_time < MaxLegacyTime
    /\ ~LegacyIndexPanic(graph, legacy)
    /\ \E burning \in Orders(LegacyBurning(legacy)) :
          legacy' = legacy_exec_step(graph, legacy, burning)
    /\ UNCHANGED <<pc, kind, graph, settings, node_data, global_time, is_active, others>>

\* legacy exec_step panics in spread_fire: a burning record has an id that
\* is no index of offsets
LegacyExecStepPanic ==
    /\ pc = "ready"
    /\ kind = "legacy"
    /\ legacy.global_time < MaxLegacyTime
    /\ LegacyIndexPanic(graph, legacy)
    /\ legacy' = [legacy EXCEPT !.global_time = legacy.global_time + 1]
    /\ pc' = "panicked"
    /\ UNCHANGED <<kind, graph, settings, node_data, global_time, is_active, others>>

\* try_attach_node_data(node_id, state), called by the owner of the problem
LegacyTryAttach ==
    /\ pc = "ready"
    /\ kind = "legacy"
    /\ \E node_id \in 0..graph.num_nodes : \E st \in {"Burning", "Defended"} :
          legacy' = try_attach_node_data(legacy, node_id, st).problem
    /\ UNCHANGED <<pc, kind, graph, settings, node_data, global_time, is_active, others>>

NextLegacy == LegacyNewPanic \/ LegacyNew \/ LegacyExecStep \/ LegacyExecStepPanic \/ LegacyTryAttach

SpecLegacy == InitLegacySim /\ [][NextLegacy]_vars

(***************************************************************************)
(* run_dijkstra on a graph, one loop iteration per step.                   *)
(***************************************************************************)
problem == <<settings, node_data, global_time, is_active, legacy, instances>>

InitDijkstra ==
    /\ pc = "start"
    /\ kind = "dijkstra"
    /\ graph \in FileGraphs
    /\ settings = PathSettings
    /\ node_data = NodeDataStorageNew
    /\ global_time = 0
    /\ is_active = TRUE
    /\ legacy = LegacyProblem
    /\ dijkstra = DijkstraIdle
    /\ input = NoInput
    /\ parse = ParseIdle
    /\ instances = NoInstances

\* run_dijkstra up to the loop
DijkstraStart ==
    /\ pc = "start"
    /\ kind = "dijkstra"
    /\ \E src_id \in GraphNodes(graph) : dijkstra' = DijkstraBegin(graph, src_id)
    /\ pc' = "loop"
    /\ UNCHANGED <<kind, graph, problem, input, parse>>

\* one iteration of while !pq.is_empty()
DijkstraLoop ==
    /\ pc = "loop"
    /\ kind = "dijkstra"
    /\ ~HeapIsEmpty(dijkstra.pq)
    /\ \E node \in HeapMin(dijkstra.pq, dijkstra.distances) :
          dijkstra' = DijkstraIteration(graph, dijkstra, node)
    /\ UNCHANGED <<pc, kind, graph, problem, input, parse>>

\* the loop ends and distances is returned
DijkstraReturn ==
    /\ pc = "loop"
    /\ kind = "dijkstra"
    /\ HeapIsEmpty(dijkstra.pq)
    /\ pc' = "done"
    /\ UNCHANGED <<kind, graph, problem, dijkstra, input, parse>>

NextDijkstra == DijkstraStart \/ DijkstraLoop \/ DijkstraReturn

SpecDijkstra == InitDijkstra /\ [][NextDijkstra]_vars

(***************************************************************************)
(* parse_graph on a file.                                                  *)
(***************************************************************************)
InitParse ==
    /\ pc = "start"
    /\ kind = "parse"
    /\ graph = GraphNew
    /\ settings = PathSettings
    /\ node_data = NodeDataStorageNew
    /\ global_time = 0
    /\ is_active = TRUE
    /\ legacy = LegacyProblem
    /\ dijkstra = DijkstraIdle
    /\ input \in Inputs
    /\ parse = ParseIdle
    /\ instances = NoInstances

\* from_file panics: parse_graph returned Err(e), or an expect in it failed
Abort(e) ==
    /\ pc' = "panicked"
    /\ parse' = [parse EXCEPT !.error = e]

\* parse_graph from File::open to the edge count
ParseCounts ==
    /\ pc = "start"
    /\ kind = "parse"
    /\ LET r == parse_counts(graph, input)
       IN  /\ graph' = r.graph
           /\ parse' = [parse EXCEPT !.pos = r.pos, !.error = r.error]
           /\ pc' = IF r.error = "none" THEN "nodes" ELSE "panicked"
    /\ UNCHANGED <<kind, problem, dijkstra, input>>

\* one iteration of the node loop
ParseNode ==
    /\ pc = "nodes"
    /\ kind = "parse"
    /\ Len0(graph.nodes) < graph.num_nodes
    /\ LET r == parse_node(input.lines, parse.pos, Len0(graph.nodes))
       IN  IF r.ok
           THEN /\ graph' = [graph EXCEPT !.nodes = VecPush(graph.nodes, r.v)]
                /\ parse' = [parse EXCEPT !.pos = parse.pos + 1]
                /\ pc' = pc
           ELSE /\ Abort(r.error)
                /\ graph' = graph
    /\ UNCHANGED <<kind, problem, dijkstra, input>>

\* between the loops: last_src, offset, offsets.resize(num_nodes + 1, 0)
ParseResize ==
    /\ pc = "nodes"
    /\ kind = "parse"
    /\ Len0(graph.nodes) = graph.num_nodes
    /\ graph' = [graph EXCEPT !.offsets = [j \in 0..graph.num_nodes |-> 0]]
    /\ parse' = [parse EXCEPT !.last_src = -1, !.offset = 0]
    /\ pc' = "edges"
    /\ UNCHANGED <<kind, problem, dijkstra, input>>

\* one iteration of the edge loop; offsets[j] with j > num_nodes is out of bounds
ParseEdge ==
    /\ pc = "edges"
    /\ kind = "parse"
    /\ Len0(graph.edges) < graph.num_edges
    /\ LET r == parse_edge(input.lines, parse.pos)
           edge == r.v
           fill == edge.src > parse.last_src
       IN  IF ~r.ok
           THEN /\ Abort(r.error)
                /\ graph' = graph
           ELSE IF fill /\ edge.src > graph.num_nodes
           THEN /\ Abort("Index")
                /\ graph' = [graph EXCEPT !.offsets = FillOffsets(graph.offsets, parse.last_src, edge.src, parse.offset)]
           ELSE /\ graph' = [graph EXCEPT
                               !.offsets = IF fill THEN FillOffsets(graph.offsets, parse.last_src, edge.src, parse.offset)
                                           ELSE graph.offsets,
                               !.edges = VecPush(graph.edges, edge)]
                /\ parse' = [parse EXCEPT !.last_src = IF fill THEN edge.src ELSE parse.last_src,
                                          !.offset = parse.offset + 1,
                                          !.pos = parse.pos + 1]
                /\ pc' = pc
    /\ UNCHANGED <<kind, problem, dijkstra, input>>

\* after the edge loop: offsets[num_nodes] = num_edges; Ok(()), and from_file
\* returns the graph
ParseFinish ==
    /\ pc = "edges"
    /\ kind = "parse"
    /\ Len0(graph.edges) = graph.num_edges
    /\ graph' = [graph EXCEPT !.offsets[graph.num_nodes] = graph.num_edges]
    /\ pc' = "parsed"
    /\ UNCHANGED <<kind, problem, dijkstra, input, parse>>

NextParse == ParseCounts \/ ParseNode \/ ParseResize \/ ParseEdge \/ ParseFinish

SpecParse == InitParse /\ [][NextParse]_vars

(***************************************************************************)
(* Two OSMFProblem instances over one graph: each owns its node data, its  *)
(* time and its is_active flag and holds a handle to the shared graph.     *)
(* Their constructions and ticks interleave in any order, and run_dijkstra *)
(* runs on the same graph in between.                                      *)
(***************************************************************************)
InstanceIds == {1, 2}

InstanceStart == [pc |-> "start", node_data |-> NodeDataStorageNew, global_time |-> 0, is_active |-> TRUE]

\* the graphs the instances share
SharedGraphs == {ForkGraph, TwinGraph}

\* a store in which the instances share their node data
StoreInstance_SharedData(insts, i, inst) ==
    [j \in DOMAIN insts |-> IF j = i THEN inst ELSE [insts[j] EXCEPT !.node_data = inst.node_data]]

\* &mut self: an operation writes the fields of its own instance
StoreInstance(insts, i, inst) == [insts EXCEPT ![i] = inst]

InitShared ==
    /\ pc = "start"
    /\ kind = "shared"
    /\ graph \in SharedGraphs
    /\ settings \in { s \in Settings : ~TooManyRoots(s.num_roots, graph.num_nodes) }
    /\ node_data = NodeDataStorageNew
    /\ global_time = 0
    /\ is_active = TRUE
    /\ legacy = LegacyProblem
    /\ dijkstra = DijkstraIdle
    /\ input = NoInput
    /\ parse = ParseIdle
    /\ instances = [i \in InstanceIds |-> InstanceStart]

\* OSMFProblem::new of instance i
SharedNew(i) ==
    /\ kind = "shared"
    /\ instances[i].pc = "start"
    /\ ~TooManyRoots(settings.num_roots, graph.num_nodes)
    /\ \E roots \in RootDraws(graph, settings, NodeDataStorageNew) :
          instances' = StoreInstance(instances, i,
                          [pc |-> "ready", node_data |-> gen_fire_roots(NodeDataStorageNew, roots, 0),
                           global_time |-> 0, is_active |-> TRUE])
    /\ UNCHANGED <<pc, kind, graph, settings, node_data, global_time, is_active, legacy, dijkstra, input, parse>>

\* OSMFProblem::exec_step of instance i
SharedExecStep(i) ==
    /\ kind = "shared"
    /\ instances[i].pc = "ready"
    /\ instances[i].global_time < MaxSharedTime
    /\ \E D \in StrategyChoices(graph, settings, instances[i].node_data) :
          LET r == exec_step(graph, settings, instances[i].node_data, instances[i].global_time, D)
          IN  instances' = StoreInstance(instances, i,
                              [pc |-> "ready", node_data |-> r.node_data,
                               global_time |-> r.global_time, is_active |-> r.is_active])
    /\ UNCHANGED <<pc, kind, graph, settings, node_data, global_time, is_active, legacy, dijkstra, input, parse>>

\* run_dijkstra on the shared graph, from a root of one of the instances
SharedDijkstra ==
    /\ kind = "shared"
    /\ dijkstra = DijkstraIdle
    /\ \E i \in InstanceIds : \E src_id \in GraphNodes(graph) :
          /\ is_root(instances[i].node_data, src_id)
          /\ dijkstra' = run_dijkstra(graph, src_id)
    /\ UNCHANGED <<pc, kind, graph, problem, input, parse>>

NextShared ==
    \/ \E i \in InstanceIds : SharedNew(i)
    \/ \E i \in InstanceIds : SharedExecStep(i)
    \/ SharedDijkstra

SpecShared == InitShared /\ [][NextShared]_vars

(***************************************************************************)
(* Vocabulary of the properties.  The out-edges of a node are taken from   *)
(* the src field of the edge records, not from the offsets table.          *)
(***************************************************************************)
Burning == DOMAIN node_data.burning

Defended == DOMAIN node_data.defended

OutEdges(b) == { graph.edges[i] : i \in { j \in DOMAIN graph.edges : graph.edges[j].src = b } }

Ticked == pc = "ready" /\ kind = "weighted" /\ global_time >= 1

\* a step of exec_step
Tick == pc = "ready" /\ kind = "weighted" /\ global_time' = global_time + 1

\* simulate() repeats exec_step while is_active: it has returned, or returns
\* at once, in the states in which is_active is false
Simulated == pc = "ready" /\ kind = "weighted" /\ ~is_active

\* at least one burning node has at least one undefended out-neighbour
FrontierOpen == \E b \in Burning : \E e \in OutEdges(b) : is_undefended(node_data, e.tgt)

(***************************************************************************)
(* C1: one tick of spread_fire at tick T marks burning exactly the nodes   *)
(* that are undefended when the scan starts (after this tick's containment)*)
(* and are the target of an edge (b, v, w) of a node b that was burning    *)
(* before the tick with T >= t_b + w; each gets burn time T, and no        *)
(* existing burning record is changed.  Nodes ignited in the tick are not  *)
(* sources in the same tick.                                               *)
(***************************************************************************)
C1_SpreadExact ==
    [][ Tick =>
          LET T == global_time'
              old == DOMAIN node_data.burning
              due == { v \in GraphNodes(graph) :
                         /\ v \notin old
                         /\ v \notin DOMAIN node_data'.defended
                         /\ \E b \in old : \E e \in OutEdges(b) :
                               e.tgt = v /\ T >= node_data.burning[b].time + e.dist }
          IN  /\ DOMAIN node_data'.burning = old \cup due
              /\ \A v \in due : node_data'.burning[v] = NodeData(v, T)
              /\ \A v \in old : node_data'.burning[v] = node_data.burning[v]
      ]_vars

\* a node ignited in the last tick has a zero-weight edge to a node that is still undefended
C1_Witness ==
    /\ Ticked
    /\ \E v \in Burning :
          /\ node_data.burning[v].time = global_time
          /\ \E e \in OutEdges(v) : e.dist = 0 /\ is_undefended(node_data, e.tgt)

(***************************************************************************)
(* C2: after every exec_step, is_active holds iff in the state at the end  *)
(* of the tick some burning node has an undefended out-neighbour; on the   *)
(* path graph with root 0 and no containment is_active is false once tick  *)
(* 6 has been executed.                                                    *)
(***************************************************************************)
C2_ActiveIffFrontier ==
    Ticked =>
        /\ is_active <=> FrontierOpen
        /\ ( /\ graph = PathGraph
             /\ Defended = {}
             /\ 0 \in Burning /\ \A v \in Burning : node_data.burning[v].time = 0 => v = 0
             /\ global_time >= 6 ) => ~is_active

(***************************************************************************)
(* C3: in one exec_step the time is incremented first, the containment     *)
(* runs next and only when the new time is a multiple of strategy_every,   *)
(* and the spread comes last: a node defended at tick T carries time T and *)
(* is not marked burning at tick T.                                        *)
(***************************************************************************)
C3_ContainBeforeSpread ==
    [][ Tick =>
          /\ node_data'.defended # node_data.defended => global_time' % settings.strategy_every = 0
          /\ \A v \in DOMAIN node_data'.defended \ DOMAIN node_data.defended :
                /\ node_data'.defended[v] = NodeData(v, global_time')
                /\ v \notin DOMAIN node_data'.burning
      ]_vars

\* a node defended in the last tick T is the target of an edge (b, v, w) of a
\* node b burning before the tick with T >= t_b + w
C3_Witness ==
    /\ Ticked
    /\ \E v \in Defended :
          /\ node_data.defended[v].time = global_time
          /\ \E b \in Burning : \E e \in OutEdges(b) :
                /\ e.tgt = v
                /\ node_data.burning[b].time < global_time
                /\ global_time >= node_data.burning[b].time + e.dist

(***************************************************************************)
(* C4: protection is permanent: a node of the defended map stays in it,    *)
(* and no step inserts it into the burning map.                            *)
(***************************************************************************)
C4_ProtectionPermanent ==
    [][ \A v \in DOMAIN node_data.defended :
          /\ v \in DOMAIN node_data'.defended
          /\ v \notin DOMAIN node_data'.burning ]_vars

\* a node defended in an earlier tick whose burning in-neighbour's fire has arrived since
C4_Witness ==
    /\ Ticked
    /\ \E v \in Defended :
          /\ node_data.defended[v].time < global_time
          /\ \E b \in Burning : \E e \in OutEdges(b) :
                /\ e.tgt = v
                /\ node_data.defended[v].time < node_data.burning[b].time + e.dist
                /\ node_data.burning[b].time + e.dist <= global_time

(***************************************************************************)
(* C5: monotone termination: once a tick has left is_active false, every   *)
(* further exec_step leaves it false and ignites no node.                  *)
(***************************************************************************)
C5_MonotoneTermination ==
    [][ (Ticked /\ ~is_active /\ Tick) =>
          /\ ~is_active'
          /\ DOMAIN node_data'.burning = DOMAIN node_data.burning ]_vars

\* is_active was false after tick T-1 already (nothing has burned or been
\* defended next to the fire since T-2), and tick T ran a containment round
C5_Witness ==
    /\ Ticked
    /\ global_time >= 2
    /\ ~is_active
    /\ Burning # {}
    /\ \E v \in Defended : node_data.defended[v].time = global_time
    /\ \A b \in Burning :
          /\ node_data.burning[b].time <= global_time - 2
          /\ \A e \in OutEdges(b) :
                \/ e.tgt \in Burning
                \/ e.tgt \in Defended /\ node_data.defended[e.tgt].time <= global_time - 1

(***************************************************************************)
(* C6: after OSMFProblem::new the burning map holds exactly num_roots      *)
(* distinct node ids, each below num_nodes and with time 0, and the        *)
(* defended map is empty.                                                  *)
(***************************************************************************)
C6_RootsDistinct ==
    (pc = "ready" /\ kind = "weighted" /\ global_time = 0) =>
        /\ Cardinality(Burning) = settings.num_roots
        /\ \A v \in Burning : v < graph.num_nodes /\ node_data.burning[v] = NodeData(v, 0)
        /\ Defended = {}

(***************************************************************************)
(* C7: when num_roots = num_nodes, after construction every node is        *)
(* burning with time 0 and is_active is false.                             *)
(***************************************************************************)
C7_AllRootsInactive ==
    (pc = "ready" /\ kind = "weighted" /\ global_time = 0 /\ settings.num_roots = graph.num_nodes) =>
        /\ Burning = GraphNodes(graph)
        /\ \A v \in Burning : node_data.burning[v] = NodeData(v, 0)
        /\ ~is_active

(***************************************************************************)
(* C8: construction panics exactly when num_roots > num_nodes, and then no *)
(* node is marked; for num_roots <= num_nodes (0 included) it completes.   *)
(* This holds for the time-weighted and for the legacy constructor.        *)
(***************************************************************************)
C8_PanicIffTooManyRoots ==
    /\ pc = "panicked" =>
          /\ settings.num_roots > graph.num_nodes
          /\ Burning = {} /\ Defended = {} /\ DOMAIN legacy.node_data = {}
    /\ pc = "ready" => settings.num_roots <= graph.num_nodes
    /\ (pc = "start" /\ settings.num_roots > graph.num_nodes) =>
          /\ ENABLED (NewPanic \/ LegacyNewPanic)
          /\ ~ENABLED (New \/ LegacyNew)
    /\ (pc = "start" /\ settings.num_roots <= graph.num_nodes) =>
          /\ ENABLED (New \/ LegacyNew)
          /\ ~ENABLED (NewPanic \/ LegacyNewPanic)

\* a constructed legacy problem with as many roots as nodes
C8_Witness ==
    /\ pc = "ready"
    /\ kind = "legacy"
    /\ graph.num_nodes > 0
    /\ settings.num_roots = graph.num_nodes
    /\ Cardinality(DOMAIN legacy.node_data) = graph.num_nodes

(***************************************************************************)
(* Shortest distances by exhaustive relaxation over the edge records       *)
(* (Bellman-Ford rounds), independent of the offsets table and the heap.   *)
(***************************************************************************)
Min2(a, b) == IF a < b THEN a ELSE b

RECURSIVE MinOf(_)
MinOf(S) == IF S = {} THEN UsizeMax ELSE LET x == CHOOSE y \in S : TRUE IN Min2(x, MinOf(S \ {x}))

RECURSIVE RelaxRounds(_, _)
RelaxRounds(src, k) ==
    IF k = 0 THEN [v \in GraphNodes(graph) |-> IF v = src THEN 0 ELSE UsizeMax]
    ELSE LET d == RelaxRounds(src, k - 1)
         IN  [v \in GraphNodes(graph) |->
                Min2(d[v], MinOf({ d[graph.edges[i].src] + graph.edges[i].dist :
                                     i \in { j \in DOMAIN graph.edges :
                                               graph.edges[j].tgt = v /\ d[graph.edges[j].src] < UsizeMax } }))]

ShortestFrom(src) == RelaxRounds(src, graph.num_nodes)

(***************************************************************************)
(* C9: run_dijkstra(src) returns distances[src] = 0, the minimum           *)
(* path-weight sum for every node reachable from src, and the sentinel     *)
(* usize::MAX for every unreachable node.                                  *)
(***************************************************************************)
C9_DijkstraShortest ==
    (pc = "done" /\ kind = "dijkstra") =>
        /\ DOMAIN dijkstra.distances = GraphNodes(graph)
        /\ dijkstra.distances[dijkstra.src_id] = 0
        /\ \A v \in GraphNodes(graph) : dijkstra.distances[v] = ShortestFrom(dijkstra.src_id)[v]

\* a finished run in which a target of an edge from the source is reached on
\* another way that is shorter than the edge
C9_Witness ==
    /\ pc = "done"
    /\ kind = "dijkstra"
    /\ \E e \in OutEdges(dijkstra.src_id) :
          e.tgt # dijkstra.src_id /\ dijkstra.distances[e.tgt] < e.dist

\* a finished run with a node that is not reachable from the source
C9_WitnessUnreachable ==
    /\ pc = "done"
    /\ kind = "dijkstra"
    /\ \E v \in GraphNodes(graph) : dijkstra.distances[v] = UsizeMax

(***************************************************************************)
(* C10: for a file whose edge lines are grouped by ascending src, the      *)
(* parsed offsets have length num_nodes + 1, start at 0, end at num_edges, *)
(* are non-decreasing, and every src gap (also one after the last src)     *)
(* holds the running edge count.                                           *)
(***************************************************************************)
GroupedBySrc(lines) ==
    \A i, j \in DOMAIN lines : i < j => lines[i].src <= lines[j].src

C10_OffsetsWellFormed ==
    (pc = "parsed" /\ kind = "parse" /\ GroupedBySrc(input.edge_lines)) =>
        /\ DOMAIN graph.offsets = 0..graph.num_nodes
        /\ graph.offsets[0] = 0
        /\ graph.offsets[graph.num_nodes] = graph.num_edges
        /\ \A v \in 0..(graph.num_nodes - 1) : graph.offsets[v] <= graph.offsets[v + 1]
        /\ \A v \in 0..graph.num_nodes :
              graph.offsets[v] = Cardinality({ i \in DOMAIN graph.edges : graph.edges[i].src < v })

(***************************************************************************)
(* C11: for every graph parsed from src-grouped input and every node v,    *)
(* the slice edges[offsets[v] .. offsets[v+1]) is exactly the set of edges *)
(* with src = v, and get_degree(v) does not underflow and equals the       *)
(* number of outgoing edges of v.                                          *)
(***************************************************************************)
C11_SliceIsOutEdges ==
    (pc = "parsed" /\ kind = "parse" /\ GroupedBySrc(input.edge_lines)) =>
        \A v \in GraphNodes(graph) :
            LET out == { i \in DOMAIN graph.edges : graph.edges[i].src = v }
            IN  /\ graph.offsets[v] <= graph.offsets[v + 1]
                /\ EdgeRange(graph, v) = out
                /\ get_degree(graph, v) = {Cardinality(out)}

(***************************************************************************)
(* The format of a file, stated on its lines.                              *)
(***************************************************************************)
\* the number of the first line that does not start with '#' (0: none)
FirstNonHash(lines) ==
    LET S == { h \in 1..Len(lines) : lines[h][1].t # "hash" }
    IN  IF S = {} THEN 0 ELSE CHOOSE h \in S : \A g \in S : h <= g

IsCount(line) == Len(line) = 1 /\ line[1].t = "int"

NodeLineOk(line) == Len(line) >= 4 /\ line[3].t \in {"int", "float"} /\ line[4].t \in {"int", "float"}

EdgeLineOk(line) == Len(line) >= 3 /\ \A j \in 1..3 : line[j].t = "int"

\* readable, and behind the line that ends the header: two counts, as many
\* node lines as the first and as many edge lines as the second count says,
\* each with its parsed fields present and numeric
WellFormedFile(f) ==
    /\ f.readable
    /\ LET L == f.lines
           h == FirstNonHash(L)
       IN  /\ h > 0
           /\ Len(L) >= h + 2
           /\ IsCount(L[h + 1])
           /\ IsCount(L[h + 2])
           /\ Len(L) >= h + 2 + L[h + 1][1].v + L[h + 2][1].v
           /\ \A i \in 1..L[h + 1][1].v : NodeLineOk(L[h + 2 + i])
           /\ \A i \in 1..L[h + 2][1].v : EdgeLineOk(L[h + 2 + L[h + 1][1].v + i])

C13_AllOrNothing ==
    kind = "parse" =>
        /\ pc = "parsed" =>
              /\ WellFormedFile(input)
              /\ Len0(graph.nodes) = graph.num_nodes
              /\ Len0(graph.edges) = graph.num_edges
              /\ DOMAIN graph.offsets = 0..graph.num_nodes
        /\ pc = "panicked" => parse.error # "none" /\ ~ENABLED NextParse
        /\ pc \notin {"parsed", "panicked"} => ENABLED NextParse

\* a file that ends within its edge lines: nodes and edges were stored
\* before the construction aborted
C13_Witness ==
    /\ pc = "panicked"
    /\ kind = "parse"
    /\ parse.error = "EOF"
    /\ Len0(graph.nodes) >= 1
    /\ Len0(graph.edges) >= 1

(***************************************************************************)
(* C14 as claimed: for every node v and every query time t, in every       *)
(* reachable state of the storage exactly one of is_undefended(v),         *)
(* is_burning_by(v, t), is_defended_by(v, t) holds.                        *)
(***************************************************************************)
RECURSIVE NumTrue(_)
NumTrue(S) == IF S = <<>> THEN 0 ELSE (IF Head(S) THEN 1 ELSE 0) + NumTrue(Tail(S))

NodeStates(v, t) ==
    <<is_undefended(node_data, v), is_burning_by(node_data, v, t), is_defended_by(node_data, v, t)>>

C14_ExactlyOneState ==
    kind = "weighted" =>
        \A v \in GraphNodes(graph) : \A t \in 0..MaxTime : NumTrue(NodeStates(v, t)) = 1

(***************************************************************************)
(* C14 amended: for every node v and every query time t at most one of     *)
(* is_undefended(v), is_burning_by(v, t), is_defended_by(v, t) holds, and  *)
(* exactly one holds for every t from the current global_time on; for an   *)
(* earlier t none holds for a node that burned or was defended after t.    *)
(***************************************************************************)
C14_AtMostOneState ==
    kind = "weighted" =>
        \A v \in GraphNodes(graph) : \A t \in 0..MaxTime :
            LET n == NumTrue(NodeStates(v, t))
            IN  /\ n <= 1
                /\ t >= global_time => n = 1
                /\ n = 0 <=>
                      \/ v \in Burning /\ node_data.burning[v].time > t
                      \/ v \in Defended /\ node_data.defended[v].time > t

\* a node ignited in the last tick, a node defended in an earlier tick and a
\* root: at query time 0 one node is burning and the other two are in none
\* of the three states
C14_Witness ==
    /\ Ticked
    /\ global_time >= 2
    /\ \E v \in Burning : node_data.burning[v].time = global_time
    /\ \E v \in Defended : node_data.defended[v].time < global_time
    /\ \E v \in Burning : is_burning_by(node_data, v, 0)

(***************************************************************************)
(* C15: single-shot transitions: across construction, containment rounds   *)
(* that defend only undefended nodes, and exec_step calls, the burning and *)
(* the defended map are disjoint, no entry is removed from either map, and *)
(* the time of an entry never changes after it was inserted, also when     *)
(* spread_fire collects one target several times in a tick.                *)
(***************************************************************************)
C15_SingleShot ==
    [][ /\ DOMAIN node_data'.burning \cap DOMAIN node_data'.defended = {}
        /\ \A v \in DOMAIN node_data.burning :
              v \in DOMAIN node_data'.burning /\ node_data'.burning[v] = node_data.burning[v]
        /\ \A v \in DOMAIN node_data.defended :
              v \in DOMAIN node_data'.defended /\ node_data'.defended[v] = node_data.defended[v]
      ]_vars

\* a node ignited in an earlier tick that two due edges of nodes burning
\* before it lead to, after a further tick
C15_Witness ==
    /\ Ticked
    /\ \E v \in Burning :
          /\ 1 <= node_data.burning[v].time
          /\ node_data.burning[v].time < global_time
          /\ \E i, j \in DOMAIN graph.edges :
                /\ i # j
                /\ graph.edges[i].tgt = v /\ graph.edges[j].tgt = v
                /\ \A k \in {i, j} :
                      /\ graph.edges[k].src \in Burning
                      /\ node_data.burning[graph.edges[k].src].time < node_data.burning[v].time
                      /\ node_data.burning[graph.edges[k].src].time + graph.edges[k].dist <= node_data.burning[v].time

(***************************************************************************)
(* C16 as claimed: no overdue fire: after every exec_step (current tick T) *)
(* for every burning node b with burn time t_b and every out-edge          *)
(* (b, v, w), w >= 0, whose target v is still undefended, T < t_b + w.     *)
(***************************************************************************)
C16_NoOverdueFire ==
    Ticked =>
        \A b \in Burning : \A e \in OutEdges(b) :
            is_undefended(node_data, e.tgt) => global_time < node_data.burning[b].time + e.dist

(***************************************************************************)
(* C16 amended: after every exec_step (current tick T) for every burning   *)
(* node b with burn time t_b and every out-edge (b, v, w) whose target v   *)
(* is still undefended, T < t_b + w if b was burning before tick T or      *)
(* w >= 1; a node ignited in tick T does not spread in tick T, so its      *)
(* zero-weight edges are due and unserved until tick T + 1.                *)
(***************************************************************************)
C16_NoOverdueFireBut0 ==
    Ticked =>
        \A b \in Burning : \A e \in OutEdges(b) :
            is_undefended(node_data, e.tgt) =>
                \/ global_time < node_data.burning[b].time + e.dist
                \/ node_data.burning[b].time = global_time /\ e.dist = 0

\* a node that is no root burns and the fire of one of its edges is still
\* on the way to an undefended target
C16_Witness ==
    /\ Ticked
    /\ \E b \in Burning :
          /\ 1 <= node_data.burning[b].time
          /\ node_data.burning[b].time < global_time
          /\ \E e \in OutEdges(b) :
                /\ is_undefended(node_data, e.tgt)
                /\ global_time < node_data.burning[b].time + e.dist

(***************************************************************************)
(* C17: the metadata of a tick agrees with the cumulative counts: in every *)
(* reachable state and for every time t, count_burning_by(t) is the number *)
(* of distinct nodes in the union of get_burning_at(s) for s <= t          *)
(* (likewise for defended), both counts are non-decreasing in t, and after *)
(* simulate() the summary's nodes_burned is count_burning_by(end_time).    *)
(***************************************************************************)
C17_MetadataConsistent ==
    kind = "weighted" =>
        LET meta == [t \in 0..MaxTime |-> sim_step_metadata_response(node_data, t)]
        IN  /\ \A t \in 0..MaxTime :
                  /\ meta[t].nodes_burned_by =
                        Cardinality(UNION { Range(meta[u].nodes_burned_at) : u \in 0..t })
                  /\ meta[t].nodes_defended_by =
                        Cardinality(UNION { Range(meta[u].nodes_defended_at) : u \in 0..t })
                  /\ t >= 1 => /\ meta[t - 1].nodes_burned_by <= meta[t].nodes_burned_by
                               /\ meta[t - 1].nodes_defended_by <= meta[t].nodes_defended_by
            /\ Simulated =>
                  LET resp == simulation_response(graph, node_data, global_time)
                  IN  /\ resp.nodes_burned = count_burning_by(node_data, resp.end_time)
                      /\ resp.nodes_defended = count_defended_by(node_data, resp.end_time)

\* simulate() has returned; a node burned at a tick after the roots and a
\* node was defended before it
C17_Witness ==
    /\ Simulated
    /\ \E t \in 1..global_time :
          /\ count_defended_by(node_data, t) >= 1
          /\ count_burning_by(node_data, t) < count_burning_by(node_data, global_time)

(***************************************************************************)
(* C19: containment cadence: the strategy's execute runs at tick T iff     *)
(* T >= 1 and T mod strategy_every = 0: at such a tick the nodes the       *)
(* strategy selects are defended with time T, at any other tick the        *)
(* defended map stays as it is; so every defended record has a time that   *)
(* is a positive multiple of strategy_every, and no node is defended at    *)
(* time 0.                                                                 *)
(***************************************************************************)
C19_ContainmentCadence ==
    kind = "weighted" =>
        /\ \A v \in Defended :
              /\ node_data.defended[v].time >= 1
              /\ node_data.defended[v].time % settings.strategy_every = 0
        /\ pc = "ready" =>
              \A D \in StrategyChoices(graph, settings, node_data) :
                  LET T == global_time + 1
                      after == exec_step(graph, settings, node_data, global_time, D).node_data.defended
                  IN  IF T % settings.strategy_every = 0
                      THEN /\ DOMAIN after = Defended \cup D
                           /\ \A v \in D : after[v] = NodeData(v, T)
                      ELSE after = node_data.defended

\* with strategy_every = 2 a node was defended at tick 2 and another one at
\* tick 4, and tick 5 has passed
C19_Witness ==
    /\ Ticked
    /\ settings.strategy_every = 2
    /\ global_time >= 5
    /\ \E v, w \in Defended : node_data.defended[v].time = 2 /\ node_data.defended[w].time = 4

(***************************************************************************)
(* C20: worklist discipline of run_dijkstra: a node is in the queue at     *)
(* most once at any time (an edge to a queued node calls decrease_key, an  *)
(* edge to an unqueued node push), a node that was popped is never pushed  *)
(* again, and the loop ends with an empty heap after at most num_nodes     *)
(* pops.                                                                   *)
(***************************************************************************)
C20_WorklistDiscipline ==
    (kind = "dijkstra" /\ pc \in {"loop", "done"}) =>
        /\ \A v \in BagToSet(dijkstra.pq) : CopiesIn(v, dijkstra.pq) = 1
        /\ \A i, j \in 1..Len(dijkstra.popped) : i # j => dijkstra.popped[i] # dijkstra.popped[j]
        /\ \A i \in 1..Len(dijkstra.popped) : ~HeapContains(dijkstra.pq, dijkstra.popped[i])
        /\ \A v \in dijkstra.decreased : v # dijkstra.src_id
        /\ Len(dijkstra.popped) <= graph.num_nodes
        /\ pc = "done" => HeapIsEmpty(dijkstra.pq)

\* a finished run that popped every node of a graph of three or more nodes
\* and called decrease_key for a queued node
C20_Witness ==
    /\ pc = "done"
    /\ kind = "dijkstra"
    /\ graph.num_nodes >= 3
    /\ Len(dijkstra.popped) = graph.num_nodes
    /\ dijkstra.decreased # {}

(***************************************************************************)
(* C18: simulations over one shared graph do not interfere: no step of     *)
(* exec_step, of a construction or of run_dijkstra changes the graph, and  *)
(* a step that changes an instance changes no other instance and takes     *)
(* the instance to a state that its own construction or exec_step reaches  *)
(* from its state alone; so under every interleaving each instance passes  *)
(* through the node data, global_time and is_active of a run on its own.   *)
(***************************************************************************)
\* the states one operation of an instance running alone leads to
AloneSteps(inst) ==
    IF inst.pc = "start"
    THEN { [pc |-> "ready", node_data |-> gen_fire_roots(NodeDataStorageNew, roots, 0),
            global_time |-> 0, is_active |-> TRUE] :
             roots \in RootDraws(graph, settings, NodeDataStorageNew) }
    ELSE { [pc |-> "ready", node_data |-> r.node_data, global_time |-> r.global_time, is_active |-> r.is_active] :
             r \in { exec_step(graph, settings, inst.node_data, inst.global_time, D) :
                       D \in StrategyChoices(graph, settings, inst.node_data) } }

LegacyReady == pc = "ready" /\ kind = "legacy"

\* a step of the legacy exec_step that returns
LegacyTick == LegacyReady /\ pc' = "ready" /\ legacy'.global_time = legacy.global_time + 1

Attached == DOMAIN legacy.node_data

\* the targets of the edge records with src = b
OutNeighbours(b) == { e.tgt : e \in OutEdges(b) }

(***************************************************************************)
(* C21: legacy change tracking: construction leaves exactly num_roots      *)
(* distinct entries in node_data, and after construction and after every   *)
(* exec_step change_tracker has exactly global_time + 1 entries, one for   *)
(* each time 0..global_time, the entry for time 0 listing exactly the      *)
(* num_roots roots.                                                        *)
(***************************************************************************)
C21_ChangeTracking ==
    kind = "legacy" =>
        /\ (pc = "start" /\ ~LegacyTooManyRoots(settings.num_roots, graph.num_nodes)) =>
              \A roots \in LegacyRootDraws(graph, settings.num_roots) :
                  LET p == legacy_gen_fire_roots(LegacyProblem, roots)
                  IN  /\ Cardinality(DOMAIN p.node_data) = settings.num_roots
                      /\ DOMAIN p.node_data = Range(roots)
                      /\ p.change_tracker = (0 :> roots)
        /\ pc = "ready" =>
              /\ DOMAIN legacy.change_tracker = 0..legacy.global_time
              /\ Cardinality(DOMAIN legacy.change_tracker) = legacy.global_time + 1
              /\ Len(legacy.change_tracker[0]) = settings.num_roots
              /\ Cardinality(Range(legacy.change_tracker[0])) = settings.num_roots
              /\ \A r \in Range(legacy.change_tracker[0]) :
                    /\ r \in Attached
                    /\ legacy.node_data[r] = LegacyNodeData(r, "Burning", 0)

\* two roots, a tick that ignited nodes and a tick that ignited none, and a
\* record attached by try_attach_node_data, which no entry lists
C21_Witness ==
    /\ LegacyReady
    /\ settings.num_roots = 2
    /\ legacy.global_time = 2
    /\ legacy.change_tracker[1] # <<>>
    /\ legacy.change_tracker[2] = <<>>
    /\ \E v \in Attached : \A t \in DOMAIN legacy.change_tracker : v \notin Range(legacy.change_tracker[t])

(***************************************************************************)
(* C22: legacy one-hop spread: after each exec_step at time T every        *)
(* out-neighbour of a node that was burning before the step has node data  *)
(* attached, every node recorded in change_tracker[T] is an out-neighbour  *)
(* of a node burning before the step and is burning with time T, and the   *)
(* nodes that already had data keep their state and time.                  *)
(***************************************************************************)
C22_OneHopSpread ==
    [][ LegacyTick =>
          LET T == legacy'.global_time
              before == LegacyBurning(legacy)
          IN  /\ \A b \in before : \A v \in OutNeighbours(b) : v \in DOMAIN legacy'.node_data
              /\ \A v \in Range(legacy'.change_tracker[T]) :
                    /\ \E b \in before : v \in OutNeighbours(b)
                    /\ legacy'.node_data[v] = LegacyNodeData(v, "Burning", T)
              /\ \A v \in Attached : legacy'.node_data[v] = legacy.node_data[v]
      ]_vars

(***************************************************************************)
(* C23: legacy try_attach_node_data(node, state): for a node that has data *)
(* attached it returns the NodeDataAlreadyAttached error and leaves        *)
(* node_data, change_tracker, global_time and is_active unchanged;         *)
(* otherwise it returns Ok and attaches exactly one record, for that node, *)
(* with the given state and the current global_time.                       *)
(***************************************************************************)
C23_TryAttach ==
    LegacyReady =>
        \A node_id \in 0..graph.num_nodes : \A st \in {"Burning", "Defended"} :
            LET r == try_attach_node_data(legacy, node_id, st)
            IN  IF node_id \in Attached
                THEN /\ r.result = "NodeDataAlreadyAttached"
                     /\ r.problem = legacy
                ELSE /\ r.result = "Ok"
                     /\ DOMAIN r.problem.node_data = Attached \cup {node_id}
                     /\ r.problem.node_data[node_id] = LegacyNodeData(node_id, st, legacy.global_time)
                     /\ \A v \in Attached : r.problem.node_data[v] = legacy.node_data[v]
                     /\ r.problem.change_tracker = legacy.change_tracker
                     /\ r.problem.global_time = legacy.global_time
                     /\ r.problem.is_active = legacy.is_active

\* a record attached as Defended at time 1 to an out-neighbour of a burning
\* root, which a later tick has left as it is, next to a node that tick 2
\* ignited and a node without data
C23_Witness ==
    /\ LegacyReady
    /\ legacy.global_time = 2
    /\ \E v \in Attached :
          /\ legacy.node_data[v] = LegacyNodeData(v, "Defended", 1)
          /\ \E b \in Range(legacy.change_tracker[0]) : v \in OutNeighbours(b)
    /\ legacy.change_tracker[2] # <<>>
    /\ Attached # GraphNodes(graph)

(***************************************************************************)
(* C24: without any containment and with every edge weight >= 1, the burn  *)
(* time the simulation assigns to a node v is the minimum over the roots r *)
(* of run_dijkstra(r)[v]: a burning node carries that time, a node with    *)
(* that time up to the current tick is burning, and a node that no root    *)
(* reaches (the minimum is usize::MAX) is never marked burning, also not   *)
(* when simulate() has returned.                                           *)
(***************************************************************************)
Roots == { v \in Burning : is_root(node_data, v) }

PositiveWeights == \A i \in DOMAIN graph.edges : graph.edges[i].dist >= 1

\* the minimum over the roots r of run_dijkstra(r)[v], for every node v
FireDistances ==
    LET runs == [r \in Roots |-> run_dijkstra(graph, r).distances]
    IN  [v \in GraphNodes(graph) |-> MinOf({ runs[r][v] : r \in Roots })]

C24_BurnTimeIsDistance ==
    (pc = "ready" /\ kind = "weighted" /\ Defended = {} /\ PositiveWeights) =>
        LET d == FireDistances
        IN  \A v \in GraphNodes(graph) :
                /\ v \in Burning => node_data.burning[v].time = d[v]
                /\ d[v] <= global_time => v \in Burning
                /\ d[v] = UsizeMax => v \notin Burning
                /\ Simulated => (v \in Burning <=> d[v] < UsizeMax)

\* simulate() has returned without a containment, and a node burns at a
\* time that is the weight of a path of two edges from a root and less than
\* the weight of the edge from that root to it
C24_Witness ==
    /\ Simulated
    /\ Defended = {}
    /\ PositiveWeights
    /\ Cardinality(Burning) >= 3
    /\ \E r \in Roots : \E v \in Burning : \E e \in OutEdges(r) :
          e.tgt = v /\ 2 <= node_data.burning[v].time /\ node_data.burning[v].time < e.dist

(***************************************************************************)
(* C25: simulate() terminates on every finite graph: for any roots, any    *)
(* strategy_every >= 1 and any strategy that defends undefended nodes      *)
(* only, is_active eventually becomes false and simulate() returns, and    *)
(* when it has returned no burning node has an undefended out-neighbour.   *)
(***************************************************************************)
C25_SimulateTerminates ==
    /\ (pc = "ready" /\ kind = "weighted") ~> (pc = "simulated" /\ ~is_active)
    /\ [](pc = "simulated" => ~is_active /\ ~FrontierOpen)

\* simulate() has returned after two or more ticks, the last of them with
\* the containment round that closed the frontier, and a node is left
\* undefended for good
C25_Witness ==
    /\ pc = "simulated"
    /\ global_time >= 2
    /\ \E v \in Defended : node_data.defended[v].time = global_time
    /\ \E v \in GraphNodes(graph) : is_undefended(node_data, v)

(***************************************************************************)
(* C26: when simulate() returns, the reported end_time (global_time) is at *)
(* least 1 and strictly greater than the burn time of every burning node:  *)
(* the last executed tick ignites no node.                                 *)
(***************************************************************************)
C26_EndAfterLastFire ==
    (pc = "simulated" /\ kind = "weighted") =>
        LET resp == simulation_response(graph, node_data, global_time)
        IN  /\ resp.end_time = global_time
            /\ resp.end_time >= 1
            /\ \A b \in Burning : node_data.burning[b].time < resp.end_time
            /\ get_burning_at(node_data, resp.end_time) = <<>>

\* simulate() has returned with every node burning, the last of them
\* ignited in the tick before the last one
C26_Witness ==
    /\ pc = "simulated"
    /\ global_time >= 3
    /\ Burning = GraphNodes(graph)
    /\ \E b \in Burning : node_data.burning[b].time = global_time - 1

=============================================================================
